---- MODULE Spec2Model ----
(***************************************************************************)
(* claude-monitor: the hook handler (hook.py) that turns Claude Code hook  *)
(* notifications into per-session state files, and the state store         *)
(* (state.py) that writes, removes, lists and reaps those files.           *)
(*                                                                         *)
(* The sessions directory is a partial map from session id to the record   *)
(* stored in <session_id>.json.  Every hook invocation is a short-lived    *)
(* process that handles one notification; several may run at once.         *)
(***************************************************************************)
EXTENDS Integers, Sequences, FiniteSets, TLC

\* ------------------------------------------------------------------------
\* Bounds of the model
\* ------------------------------------------------------------------------

\* Largest sub-second reading (in microseconds) the clock takes.
MaxMicro == 1

\* The clock advances in whole days up to this many.
MaxDays == 1

\* Hook invocations (processes) in one run of the concurrent specification.
MaxHooks == 2

\* PostToolUse notifications in one run of the sequential specification.
MaxPosts == 2

\* Pieces in which json.dump hands the text of a record to the file.
MaxChunks == 2

\* ------------------------------------------------------------------------
\* Values
\* ------------------------------------------------------------------------

\* Python's None (tool_name of a record, a missing key of a payload).
None == "None"

ZOMBIE_THRESHOLD_HOURS == 24

_USER_INPUT_TOOLS == {"ExitPlanMode", "AskUserQuestion"}

\* EVENT_STATE_MAP.get(event): None for a kind the map does not list.
EVENT_STATE_MAP(event) ==
    CASE event = "SessionStart"      -> "STARTING"
      [] event = "UserPromptSubmit"  -> "THINKING"
      [] event = "PreToolUse"        -> "EXECUTING"
      [] event = "PermissionRequest" -> "PERMISSION"
      [] event = "PostToolUse"       -> "THINKING"
      [] event = "Stop"              -> "WAITING"
      [] event = "Notification"      -> None
      [] event = "SessionEnd"        -> "ENDED"
      [] OTHER                       -> None

\* ------------------------------------------------------------------------
\* Time.  A clock reading is [h |-> hours, f |-> microseconds] since the
\* epoch of the run (f below one hour).  _now_iso() renders it with
\* datetime.isoformat(): fixed-width, zero-padded fields, the fraction
\* ".ffffff" only when the microsecond is not 0, then the UTC offset.
\* The string is a sequence of character codes; the fields that are the
\* same in every reading of a run (year, month, minutes, seconds, the
\* digits of the offset) are left out.
\* ------------------------------------------------------------------------

Digit(n) == 48 + n

Digits2(n) == <<Digit((n \div 10) % 10), Digit(n % 10)>>

Digits6(n) ==
    <<Digit((n \div 100000) % 10), Digit((n \div 10000) % 10),
      Digit((n \div 1000) % 10), Digit((n \div 100) % 10),
      Digit((n \div 10) % 10), Digit(n % 10)>>

\* datetime.isoformat(): "DD" "T" "HH" [ "." "ffffff" ] "+"
IsoFormat(t) ==
    Digits2(t.h \div 24) \o <<84>> \o Digits2(t.h % 24)
      \o (IF t.f = 0 THEN <<>> ELSE <<46>> \o Digits6(t.f))
      \o <<43>>

_now_iso(clk) == IsoFormat(clk)

IsDigit(c) == c \in 48..57

Num(s) ==
    LET RECURSIVE Go(_, _)
        Go(i, acc) == IF i > Len(s) THEN acc
                      ELSE Go(i + 1, acc * 10 + (s[i] - 48))
    IN Go(1, 0)

\* datetime.fromisoformat accepts exactly what isoformat writes.
IsIso(s) ==
    /\ Len(s) \in {6, 13}
    /\ \A i \in {1, 2, 4, 5} : IsDigit(s[i])
    /\ s[3] = 84
    /\ s[Len(s)] = 43
    /\ Len(s) = 13 => (s[6] = 46 /\ \A i \in 7..12 : IsDigit(s[i]))

FromIso(s) ==
    [h |-> Num(SubSeq(s, 1, 2)) * 24 + Num(SubSeq(s, 4, 5)),
     f |-> IF Len(s) = 13 THEN Num(SubSeq(s, 7, 12)) ELSE 0]

\* Python's str.__gt__: the first differing character decides, and a
\* proper prefix is the smaller string.
StrGreater(a, b) ==
    LET n     == IF Len(a) < Len(b) THEN Len(a) ELSE Len(b)
        diffs == {i \in 1..n : a[i] # b[i]}
    IN IF diffs = {} THEN Len(a) > Len(b)
       ELSE LET k == CHOOSE i \in diffs : \A j \in diffs : i <= j
            IN a[k] > b[k]

\* ------------------------------------------------------------------------
\* Payload helpers of hook.py
\* ------------------------------------------------------------------------

\* A path is the sequence of its components; "" is the empty sequence.
\* Directories of the modelled file system that hold a .git entry.
GitRoots == {<<"repo", "proj">>}

Last(q) == q[Len(q)]

\* _project_name: the name of the nearest ancestor (cwd included) holding
\* .git, else the basename of cwd; "" for an empty cwd or the root.
_project_name(cwd) ==
    IF cwd = <<>> THEN ""
    ELSE LET roots == {k \in 0..Len(cwd) : SubSeq(cwd, 1, k) \in GitRoots}
         IN IF roots # {}
            THEN LET k == CHOOSE i \in roots : \A j \in roots : j <= i
                 IN IF k = 0 THEN "" ELSE cwd[k]
            ELSE Last(cwd)

\* A prompt is a sequence of tokens: words, "WS" (white space), "IDE" (an
\* <ide_x>...</ide_x> span) and "SYS" (a <system-reminder> span).
TagTokens == {"IDE", "SYS"}

RECURSIVE Strip(_)
Strip(text) ==
    IF text = <<>> THEN <<>>
    ELSE IF Head(text) = "WS" THEN Strip(Tail(text))
    ELSE IF Last(text) = "WS" THEN Strip(SubSeq(text, 1, Len(text) - 1))
    ELSE text

\* _clean_prompt: drop the IDE and system-reminder spans, then strip().
_clean_prompt(text) == Strip(SelectSeq(text, LAMBDA tok : tok \notin TagTokens))

\* The transcript files of the modelled file system: path -> JSONL lines.
TranscriptPaths == {"t1"}

Transcript(path) ==
    <<[type |-> "system", content |-> <<"boot">>],
      [type |-> "user", content |-> <<"SYS">>],
      [type |-> "user", content |-> <<"WS", "fix">>]>>

\* _read_topic_from_transcript: the first user message that cleans to a
\* non-empty text; "" when the path is empty or no file is there.
_read_topic_from_transcript(path) ==
    IF path = "" \/ path \notin TranscriptPaths THEN <<>>
    ELSE LET lines == Transcript(path)
             hits  == {i \in 1..Len(lines) :
                          /\ lines[i].type = "user"
                          /\ _clean_prompt(lines[i].content) # <<>>}
         IN IF hits = {} THEN <<>>
            ELSE _clean_prompt(lines[CHOOSE i \in hits : \A j \in hits : i <= j].content)

\* ------------------------------------------------------------------------
\* handle_hook, up to the record it hands to write_session
\* ------------------------------------------------------------------------

\* Lines 159-180: the status a notification proposes (None: none).
NewStatus(data) ==
    LET event == data.hook_event_name
        mapped == IF event = "PreToolUse" /\ data.tool_name \in _USER_INPUT_TOOLS
                  THEN "PERMISSION"
                  ELSE EVENT_STATE_MAP(event)
    IN IF event = "Notification"
       THEN (IF data.notification_type = "permission_prompt"
             THEN "PERMISSION" ELSE None)
       ELSE mapped

\* The routing without the early return of lines 166-168: SessionEnd goes
\* the way of the notifications that write a status.
Route_EndWrites(data) ==
    IF data.session_id = "" THEN "drop"
    ELSE IF data.hook_event_name \in {"SubagentStart", "SubagentStop"} THEN "subagent"
    ELSE IF EVENT_STATE_MAP(data.hook_event_name) = None
            /\ data.hook_event_name # "Notification" THEN "drop"
    ELSE "hook"

\* The routing that returns on every notification proposing no status, a
\* Notification that is not a permission prompt among them.
Route_NoStatusDropped(data) ==
    IF data.session_id = "" THEN "drop"
    ELSE IF data.hook_event_name = "SessionEnd" THEN "remove"
    ELSE IF data.hook_event_name \in {"SubagentStart", "SubagentStop"} THEN "subagent"
    ELSE IF NewStatus(data) = None THEN "drop"
    ELSE "hook"

\* Where handle_hook sends a notification (lines 155-183).
Route(data) ==
    IF data.session_id = "" THEN "drop"
    ELSE IF data.hook_event_name = "SessionEnd" THEN "remove"
    ELSE IF data.hook_event_name \in {"SubagentStart", "SubagentStop"} THEN "subagent"
    ELSE IF NewStatus(data) = None /\ data.hook_event_name # "Notification" THEN "drop"
    ELSE "hook"

\* Lines 193-223: the fields read from the session's file, or the defaults
\* when there is none.
ReadExisting(files, sid, now) ==
    IF sid \in DOMAIN files
    THEN [status     |-> files[sid].status,
          started    |-> files[sid].started_at,
          tool       |-> files[sid].tool_name,
          model      |-> files[sid].model,
          topic      |-> files[sid].topic,
          prompt     |-> files[sid].last_prompt,
          tool_count |-> files[sid].tool_count,
          subagents  |-> files[sid].subagents]
    ELSE [status     |-> "STARTING",
          started    |-> now,
          tool       |-> None,
          model      |-> "",
          topic      |-> <<>>,
          prompt     |-> <<>>,
          tool_count |-> 0,
          subagents  |-> <<>>]

\* The guard without its WAITING rule: only the Notification rule is left,
\* and that one without WAITING.
Suppressed_NoticeOnly(new_status, event, existing_status) ==
    /\ new_status = "PERMISSION"
    /\ event = "Notification"
    /\ existing_status \in {"THINKING", "EXECUTING"}

\* The guard without its Notification rule.
Suppressed_WaitingOnly(new_status, event, existing_status) ==
    /\ new_status = "PERMISSION"
    /\ existing_status = "WAITING"

\* The guard holding back every proposal made to a WAITING record.
Suppressed_AllOnWaiting(new_status, event, existing_status) ==
    \/ existing_status = "WAITING" /\ new_status # None
    \/ /\ new_status = "PERMISSION"
       /\ event = "Notification"
       /\ existing_status \in {"THINKING", "EXECUTING"}

\* Lines 232-237: the status guard.
Suppressed(new_status, event, existing_status) ==
    /\ new_status = "PERMISSION"
    /\ \/ existing_status = "WAITING"
       \/ /\ event = "Notification"
          /\ existing_status \in {"THINKING", "EXECUTING", "WAITING"}

\* The counter counting the start of a tool as well as its end.
ToolCount_PreToo(event, existing_tool_count) ==
    IF event \in {"PreToolUse", "PostToolUse"}
    THEN existing_tool_count + 1 ELSE existing_tool_count

\* Lines 258-261: the tool counter.
ToolCount(event, existing_tool_count) ==
    IF event = "PostToolUse" THEN existing_tool_count + 1 ELSE existing_tool_count

\* Lines 185-188 and 239-280: the SessionState handed to write_session.
HookState(data, ex, now) ==
    LET event      == data.hook_event_name
        new_status == NewStatus(data)
        cleaned    == _clean_prompt(data.prompt)
    IN [session_id      |-> data.session_id,
        cwd             |-> data.cwd,
        project         |-> _project_name(data.cwd),
        status          |-> IF new_status # None THEN new_status ELSE ex.status,
        tool_name       |-> IF event \in {"PreToolUse", "PermissionRequest"}
                            THEN data.tool_name ELSE None,
        permission_mode |-> data.permission_mode,
        model           |-> IF event = "SessionStart" THEN data.model ELSE ex.model,
        topic           |-> IF event = "UserPromptSubmit" /\ data.prompt # <<>>
                            THEN (IF cleaned # <<>> THEN cleaned ELSE ex.topic)
                            ELSE IF ex.topic = <<>>
                            THEN _read_topic_from_transcript(data.transcript_path)
                            ELSE ex.topic,
        last_prompt     |-> IF event = "UserPromptSubmit" THEN data.prompt ELSE ex.prompt,
        tool_count      |-> ToolCount(event, ex.tool_count),
        started_at      |-> ex.started,
        last_updated    |-> now,
        subagents       |-> IF event # "Stop" THEN ex.subagents ELSE <<>>]

\* ------------------------------------------------------------------------
\* _handle_subagent, up to the record it hands to write_session
\* ------------------------------------------------------------------------

HasAgent(subagents, agent_id) ==
    \E i \in 1..Len(subagents) : subagents[i].agent_id = agent_id

\* The merge without the duplicate check of line 107.
MergeSubagents_AlwaysAppend(subagents, event, data, now) ==
    IF event = "SubagentStart"
    THEN Append(subagents, [agent_id     |-> data.agent_id,
                            agent_type   |-> data.agent_type,
                            status       |-> "running",
                            last_updated |-> now])
    ELSE IF event = "SubagentStop"
    THEN SelectSeq(subagents, LAMBDA sa : sa.agent_id # data.agent_id)
    ELSE subagents

\* Lines 103-116: the merged subagent list.
MergeSubagents(subagents, event, data, now) ==
    IF event = "SubagentStart"
    THEN IF ~HasAgent(subagents, data.agent_id)
         THEN Append(subagents, [agent_id     |-> data.agent_id,
                                 agent_type   |-> data.agent_type,
                                 status       |-> "running",
                                 last_updated |-> now])
         ELSE subagents
    ELSE IF event = "SubagentStop"
    THEN SelectSeq(subagents, LAMBDA sa : sa.agent_id # data.agent_id)
    ELSE subagents

\* The override applied to SubagentStop as well.
SubagentStatus_StopToo(event, status) ==
    IF status = "PERMISSION" THEN "THINKING" ELSE status

\* Lines 121-125: a subagent start overrides a stale PERMISSION.
SubagentStatus(event, status) ==
    IF event = "SubagentStart" /\ status = "PERMISSION" THEN "THINKING" ELSE status

\* The record built with the defaults of lines 128-138 in place of the
\* fields that were read.
SubagentState_Defaults(existing, data, now) ==
    [session_id      |-> existing.session_id,
     cwd             |-> <<>>,
     project         |-> "",
     status          |-> SubagentStatus(data.hook_event_name, existing.status),
     tool_name       |-> None,
     permission_mode |-> "",
     model           |-> "",
     topic           |-> <<>>,
     last_prompt     |-> <<>>,
     tool_count      |-> 0,
     started_at      |-> now,
     last_updated    |-> now,
     subagents       |-> MergeSubagents(existing.subagents, data.hook_event_name,
                                        data, now)]

\* Lines 118-149: the SessionState built from the record that was read.
SubagentState(existing, data, now) ==
    [session_id      |-> existing.session_id,
     cwd             |-> existing.cwd,
     project         |-> existing.project,
     status          |-> SubagentStatus(data.hook_event_name, existing.status),
     tool_name       |-> existing.tool_name,
     permission_mode |-> existing.permission_mode,
     model           |-> existing.model,
     topic           |-> existing.topic,
     last_prompt     |-> existing.last_prompt,
     tool_count      |-> existing.tool_count,
     started_at      |-> existing.started_at,
     last_updated    |-> now,
     subagents       |-> MergeSubagents(existing.subagents, data.hook_event_name,
                                        data, now)]

\* ------------------------------------------------------------------------
\* state.py: the store
\* ------------------------------------------------------------------------

\* The stamp check with its comparison turned round.
WriteSkipped_Reversed(files, state) ==
    /\ state.session_id \in DOMAIN files
    /\ StrGreater(state.last_updated, files[state.session_id].last_updated)

\* write_session, lines 71-79: the file exists and carries a later stamp.
WriteSkipped(files, state) ==
    /\ state.session_id \in DOMAIN files
    /\ StrGreater(files[state.session_id].last_updated, state.last_updated)

\* write_session, lines 81-109: the temporary file renamed over the target.
Replace(files, state) ==
    [s \in DOMAIN files \cup {state.session_id} |->
        IF s = state.session_id THEN state ELSE files[s]]

\* write_session as one call.
write_session(files, state) ==
    IF WriteSkipped(files, state) THEN files ELSE Replace(files, state)

\* remove_session: unlink(missing_ok=True).
remove_session(files, sid) ==
    [s \in DOMAIN files \ {sid} |-> files[s]]

\* _session_path: <session_id>.json; the directory map is keyed by the
\* stem of the name.
_session_path(session_id) == session_id

\* tempfile.mkstemp(suffix=".tmp"): a name no other file of the directory
\* has, here the one of the calling process.
mkstemp(i) ==
    CASE i = 1 -> "tmp1.tmp"
      [] i = 2 -> "tmp2.tmp"
      [] OTHER -> "tmp3.tmp"

\* The text written over the session's own file instead of a temporary one.
DumpPath_InPlace(path, tmp_path) == path

\* write_session, lines 105-108: the file json.dump writes into.
DumpPath(path, tmp_path) == tmp_path

\* path.read_text() of a session's file: <<>> when there is no file, else
\* the record whose text it holds and how many pieces of the text are there.
read_text(dir, writing, session_id) ==
    IF _session_path(session_id) \in DOMAIN writing
    THEN <<writing[_session_path(session_id)]>>
    ELSE IF session_id \in DOMAIN dir
         THEN <<[state |-> dir[session_id], written |-> MaxChunks]>>
         ELSE <<>>

\* SessionState.is_active
is_active(rec) == rec.status \notin {"ENDED"}

\* The reaper taking a record of exactly the threshold age as well.
IsZombie_AtThreshold(rec, now) ==
    IF ~IsIso(rec.last_updated) THEN TRUE
    ELSE LET last == FromIso(rec.last_updated)
             dh   == now.h - last.h
             df   == now.f - last.f
         IN \/ dh > ZOMBIE_THRESHOLD_HOURS
            \/ dh = ZOMBIE_THRESHOLD_HOURS /\ df >= 0

\* get_sessions, lines 166-168: age = (now - last_updated_dt) / 3600 hours,
\* last_updated_dt being datetime.min for a stamp that does not parse.
\* With both microsecond parts below one hour, the elapsed time exceeds
\* n hours iff the hours differ by more than n, or by n with a positive
\* microsecond difference.
IsZombie(rec, now) ==
    IF ~IsIso(rec.last_updated) THEN TRUE
    ELSE LET last == FromIso(rec.last_updated)
             dh   == now.h - last.h
             df   == now.f - last.f
         IN \/ dh > ZOMBIE_THRESHOLD_HOURS
            \/ dh = ZOMBIE_THRESHOLD_HOURS /\ df > 0

\* Line 178: key (not is_active, last_updated), ascending.
FirstKeyBefore(a, b) ==
    \/ is_active(a) /\ ~is_active(b)
    \/ is_active(a) = is_active(b) /\ StrGreater(b.last_updated, a.last_updated)

TimeBefore(t, u) == t.h < u.h \/ (t.h = u.h /\ t.f < u.f)

\* last_updated_dt; datetime.min is before every clock reading.
last_updated_dt(rec) ==
    IF IsIso(rec.last_updated) THEN FromIso(rec.last_updated) ELSE [h |-> -1, f |-> 0]

\* Line 179: key (not is_active, -last_updated_dt.timestamp()), ascending.
SecondKeyBefore(a, b) ==
    \/ is_active(a) /\ ~is_active(b)
    \/ is_active(a) = is_active(b) /\ TimeBefore(last_updated_dt(b), last_updated_dt(a))

KeyBefore(pass, a, b) ==
    IF pass = 1 THEN FirstKeyBefore(a, b) ELSE SecondKeyBefore(a, b)

\* list.sort is stable: an element moves ahead only of those whose key is
\* strictly greater.
RECURSIVE InsertSorted(_, _, _)
InsertSorted(sorted, x, pass) ==
    IF sorted = <<>> THEN <<x>>
    ELSE IF KeyBefore(pass, x, Last(sorted))
         THEN Append(InsertSorted(SubSeq(sorted, 1, Len(sorted) - 1), x, pass),
                     Last(sorted))
         ELSE Append(sorted, x)

RECURSIVE StableSort(_, _)
StableSort(list, pass) ==
    IF list = <<>> THEN <<>>
    ELSE InsertSorted(StableSort(SubSeq(list, 1, Len(list) - 1), pass),
                      Last(list), pass)

\* The first sort alone: within a group, the oldest record first.
SortSessions_FirstPassOnly(sessions) ==
    StableSort(sessions, 1)

\* Lines 177-180: the two sorts.
SortSessions(sessions) ==
    StableSort(StableSort(sessions, 1), 2)

\* get_sessions, lines 133-175, for one path of the listing: a file that is
\* gone is skipped, a zombie is unlinked, any other record is appended.
\* acc is [files |-> the directory, sessions |-> the list so far].
VisitPath(acc, path, now) ==
    IF path \notin DOMAIN acc.files THEN acc
    ELSE IF IsZombie(acc.files[path], now)
         THEN [acc EXCEPT !.files = remove_session(acc.files, path)]
         ELSE [acc EXCEPT !.sessions = Append(acc.sessions, acc.files[path])]

RECURSIVE ScanPaths(_, _, _)
ScanPaths(acc, order, now) ==
    IF order = <<>> THEN acc
    ELSE ScanPaths(VisitPath(acc, Head(order), now), Tail(order), now)

\* get_sessions as one call: order is the order in which glob lists the
\* directory, now the clock reading of line 131.
get_sessions(files, order, now) ==
    LET scanned == ScanPaths([files |-> files, sessions |-> <<>>], order, now)
    IN [files |-> scanned.files, sessions |-> SortSessions(scanned.sessions)]

\* The orders in which a directory can be listed.
Listings(files) ==
    {order \in [1..Cardinality(DOMAIN files) -> DOMAIN files] :
        \A i, j \in DOMAIN order : i # j => order[i] # order[j]}

\* ------------------------------------------------------------------------
\* hook.py as one call per notification
\* ------------------------------------------------------------------------

\* The subagent handler merging into the defaults when there is no file.
_handle_subagent_Creates(files, data, now) ==
    write_session(files,
        SubagentState(IF data.session_id \in DOMAIN files
                      THEN files[data.session_id]
                      ELSE HookState(data, ReadExisting(files, data.session_id, now), now),
                      data, now))

\* _handle_subagent: nothing to merge into when the session has no file.
_handle_subagent(files, data, now) ==
    IF data.session_id \notin DOMAIN files THEN files
    ELSE write_session(files, SubagentState(files[data.session_id], data, now))

\* The handler dropping every notification but SessionStart when the
\* session has no file.
handle_hook_NeedsRecord(files, data, now) ==
    LET route == Route(data)
        ex    == ReadExisting(files, data.session_id, now)
    IN CASE route = "drop"     -> files
         [] route = "remove"   -> remove_session(files, data.session_id)
         [] route = "subagent" -> _handle_subagent(files, data, now)
         [] OTHER ->
              IF \/ Suppressed(NewStatus(data), data.hook_event_name, ex.status)
                 \/ /\ data.session_id \notin DOMAIN files
                    /\ data.hook_event_name # "SessionStart"
              THEN files
              ELSE write_session(files, HookState(data, ex, now))

\* handle_hook, run to completion with the clock reading now.
handle_hook(files, data, now) ==
    LET route == Route(data)
        ex    == ReadExisting(files, data.session_id, now)
    IN CASE route = "drop"     -> files
         [] route = "remove"   -> remove_session(files, data.session_id)
         [] route = "subagent" -> _handle_subagent(files, data, now)
         [] OTHER ->
              IF Suppressed(NewStatus(data), data.hook_event_name, ex.status)
              THEN files
              ELSE write_session(files, HookState(data, ex, now))

\* ------------------------------------------------------------------------
\* Notifications
\* ------------------------------------------------------------------------

Payload(sid, event) ==
    [session_id        |-> sid,
     hook_event_name   |-> event,
     cwd               |-> <<"repo", "proj", "src">>,
     tool_name         |-> None,
     permission_mode   |-> "default",
     model             |-> "",
     prompt            |-> <<>>,
     transcript_path   |-> "t1",
     notification_type |-> "",
     agent_id          |-> "",
     agent_type        |-> ""]

ToolPayload(sid, event, tool) == [Payload(sid, event) EXCEPT !.tool_name = tool]

AgentPayload(sid, event, agent) ==
    [Payload(sid, event) EXCEPT !.agent_id = agent, !.agent_type = "Explore"]

StartPayload(sid) == [Payload(sid, "SessionStart") EXCEPT !.model = "opus"]

PromptPayload(sid) ==
    [Payload(sid, "UserPromptSubmit") EXCEPT !.prompt = <<"SYS", "fix", "WS">>]

NoticePayload(sid, type) ==
    [Payload(sid, "Notification") EXCEPT !.notification_type = type]

\* The notifications that propose PERMISSION.
PermissionInputs(sid) ==
    {ToolPayload(sid, "PermissionRequest", "Bash"),
     ToolPayload(sid, "PreToolUse", "ExitPlanMode"),
     ToolPayload(sid, "PreToolUse", "AskUserQuestion"),
     NoticePayload(sid, "permission_prompt")}

SubagentInputs(sid) ==
    {AgentPayload(sid, "SubagentStart", "a1"),
     AgentPayload(sid, "SubagentStart", "a2"),
     AgentPayload(sid, "SubagentStop", "a1")}

\* Every kind of notification, for one session.
AllInputs(sid) ==
    {StartPayload(sid),
     PromptPayload(sid),
     ToolPayload(sid, "PreToolUse", "Bash"),
     ToolPayload(sid, "PostToolUse", "Bash"),
     Payload(sid, "Stop"),
     NoticePayload(sid, "idle_prompt"),
     Payload(sid, "SessionEnd"),
     Payload(sid, "PreCompact"),
     Payload("", "Stop")}
      \cup PermissionInputs(sid) \cup SubagentInputs(sid)

NoData == Payload("", "")

\* ------------------------------------------------------------------------
\* State
\* ------------------------------------------------------------------------

VARIABLES
    clock,   \* the wall clock, [h, f]
    files,   \* the sessions directory: session id -> record of its file
    hooks,   \* the hook processes: their position and locals
    last,    \* the last call made one at a time: its input, the directory
             \* before it, and what it returned
    posts,   \* PostToolUse notifications processed, in all and since the
             \* last SessionEnd
    temps,   \* the files of the directory whose text is being written:
             \* file name -> [state, written]
    scan     \* the get_sessions call under way: its position and locals

vars == <<clock, files, hooks, last, posts, temps, scan>>

\* SessionState(session_id="") with the defaults of the dataclass.
NoState ==
    [session_id      |-> "",
     cwd             |-> <<>>,
     project         |-> "",
     status          |-> "STARTING",
     tool_name       |-> None,
     permission_mode |-> "",
     model           |-> "",
     topic           |-> <<>>,
     last_prompt     |-> <<>>,
     tool_count      |-> 0,
     started_at      |-> <<>>,
     last_updated    |-> <<>>,
     subagents       |-> <<>>]

EmptyDir == [s \in {} |-> NoState]

Clock0 == [h |-> 0, f |-> 0]

\* Clock readings within one second, and over the days of a run.
MicroReadings == {[h |-> 0, f |-> f] : f \in 0..MaxMicro}

DayReadings == {[h |-> d * 24, f |-> f] : d \in 0..MaxDays, f \in 0..MaxMicro}

\* The clock moves forward to a later reading.
Advance(readings) ==
    /\ \E t \in readings : TimeBefore(clock, t) /\ clock' = t
    /\ UNCHANGED <<files, hooks, last, posts, temps, scan>>

IdleHook == [pc |-> "new", data |-> NoData, now |-> <<>>, state |-> NoState]

NoHooks == [i \in 1..MaxHooks |-> IdleHook]

NoCall == [op |-> "none", data |-> NoData, state |-> NoState, now |-> Clock0,
           pre |-> EmptyDir, ret |-> <<>>]

NoPosts == [total |-> 0, since |-> 0]

\* No get_sessions call is under way.
NoScan == [pc |-> "idle", now |-> Clock0, todo |-> <<>>, read |-> NoState,
           sessions |-> <<>>]

\* No file of the directory is being written.
NoTemps == [name \in {} |-> [state |-> NoState, written |-> 0]]

\* ------------------------------------------------------------------------
\* Spec: the hook processes of one session running at once.  Claude Code
\* starts one process per notification ("async": true), so each process
\* handles one notification and ends; their reads and writes of the
\* session's file interleave in any order.
\* ------------------------------------------------------------------------

HookSession == "s1"

\* One notification of every kind, and of every way through the handler.
HookInputs ==
    {StartPayload(HookSession),
     PromptPayload(HookSession),
     ToolPayload(HookSession, "PreToolUse", "Bash"),
     ToolPayload(HookSession, "PermissionRequest", "Bash"),
     ToolPayload(HookSession, "PostToolUse", "Bash"),
     Payload(HookSession, "Stop"),
     NoticePayload(HookSession, "permission_prompt"),
     NoticePayload(HookSession, "idle_prompt"),
     Payload(HookSession, "SessionEnd"),
     Payload(HookSession, "PreCompact")}
      \cup SubagentInputs(HookSession)

\* The directory after the SessionStart of the session, handled alone.
StartedDir(sid) ==
    handle_hook(EmptyDir, StartPayload(sid), _now_iso(Clock0))

\* The processes start on an empty directory or on a started session.
Init ==
    /\ clock = Clock0
    /\ files \in {EmptyDir, StartedDir(HookSession)}
    /\ hooks = NoHooks
    /\ last = NoCall
    /\ posts = NoPosts
    /\ temps = NoTemps
    /\ scan = NoScan

\* Processes are numbered in the order they start.
CanStart(i) ==
    /\ hooks[i].pc = "new"
    /\ i > 1 => hooks[i - 1].pc # "new"

Exit(i, data) ==
    [hooks EXCEPT ![i] = [pc |-> "done", data |-> data, now |-> <<>>,
                          state |-> NoState]]

\* handle_hook up to line 188, _handle_subagent up to line 92: the
\* notification is routed and the handler takes its timestamp.
HookBegin(i) ==
    /\ CanStart(i)
    /\ \E data \in HookInputs :
          /\ Route(data) # "remove"
          /\ hooks' = IF Route(data) = "drop" THEN Exit(i, data)
                      ELSE [hooks EXCEPT ![i] =
                               [pc    |-> IF Route(data) = "subagent"
                                          THEN "merge" ELSE "read",
                                data  |-> data,
                                now   |-> _now_iso(clock),
                                state |-> NoState]]
    /\ UNCHANGED <<clock, files, last, posts, temps, scan>>

\* handle_hook, lines 166-168: SessionEnd unlinks the file.
HookRemove(i) ==
    /\ CanStart(i)
    /\ \E data \in HookInputs :
          /\ Route(data) = "remove"
          /\ files' = remove_session(files, data.session_id)
          /\ hooks' = Exit(i, data)
    /\ UNCHANGED <<clock, last, posts, temps, scan>>

\* handle_hook, lines 190-280: read the file, apply the status guard and
\* build the record.
HookRead(i) ==
    /\ hooks[i].pc = "read"
    /\ LET data == hooks[i].data
           ex   == ReadExisting(files, data.session_id, hooks[i].now)
       IN hooks' = IF Suppressed(NewStatus(data), data.hook_event_name, ex.status)
                   THEN Exit(i, data)
                   ELSE [hooks EXCEPT ![i].pc = "check",
                                      ![i].state = HookState(data, ex, hooks[i].now)]
    /\ UNCHANGED <<clock, files, last, posts, temps, scan>>

\* _handle_subagent, lines 94-149: read the file and merge.
HookMerge(i) ==
    /\ hooks[i].pc = "merge"
    /\ LET data == hooks[i].data
       IN hooks' = IF data.session_id \notin DOMAIN files
                   THEN Exit(i, data)
                   ELSE [hooks EXCEPT ![i].pc = "check",
                                      ![i].state = SubagentState(files[data.session_id],
                                                                 data, hooks[i].now)]
    /\ UNCHANGED <<clock, files, last, posts, temps, scan>>

\* write_session, lines 68-79: the stamp check.
HookCheck(i) ==
    /\ hooks[i].pc = "check"
    /\ hooks' = IF WriteSkipped(files, hooks[i].state)
                THEN Exit(i, hooks[i].data)
                ELSE [hooks EXCEPT ![i].pc = "replace"]
    /\ UNCHANGED <<clock, files, last, posts, temps, scan>>

\* write_session, lines 81-109: the temporary file, then os.replace.
HookReplace(i) ==
    /\ hooks[i].pc = "replace"
    /\ files' = Replace(files, hooks[i].state)
    /\ hooks' = Exit(i, hooks[i].data)
    /\ UNCHANGED <<clock, last, posts, temps, scan>>

Tick == Advance(MicroReadings)

Next ==
    \/ \E i \in 1..MaxHooks :
          \/ HookBegin(i)
          \/ HookRemove(i)
          \/ HookRead(i)
          \/ HookMerge(i)
          \/ HookCheck(i)
          \/ HookReplace(i)
    \/ Tick

Spec == Init /\ [][Next]_vars

\* ------------------------------------------------------------------------
\* SpecSeq: one session, every kind of notification, the handlers run one
\* at a time (each to completion before the next starts).
\* ------------------------------------------------------------------------

SeqSession == "s1"

\* Every kind of notification; the second subagent is left to SpecAgents.
SeqInputs ==
    AllInputs(SeqSession) \ {AgentPayload(SeqSession, "SubagentStart", "a2")}

InitSeq ==
    /\ clock = Clock0
    /\ files = EmptyDir
    /\ hooks = NoHooks
    /\ last = NoCall
    /\ posts = NoPosts
    /\ temps = NoTemps
    /\ scan = NoScan

IsPost(data) == Route(data) = "hook" /\ data.hook_event_name = "PostToolUse"

\* The count of PostToolUse notifications after one more notification:
\* in all, and since the last SessionEnd.
CountPosts(data) ==
    LET inc == IF IsPost(data) THEN 1 ELSE 0
    IN [total |-> posts.total + inc,
        since |-> IF Route(data) = "remove" THEN 0 ELSE posts.since + inc]

SeqHook ==
    \E data \in SeqInputs :
        LET after == handle_hook(files, data, _now_iso(clock))
        IN /\ IsPost(data) => posts.total < MaxPosts
           /\ files' = after
           /\ last' = [op |-> "hook", data |-> data, state |-> NoState,
                       now |-> clock, pre |-> files, ret |-> <<>>]
           /\ posts' = CountPosts(data)
           /\ UNCHANGED <<clock, hooks, temps, scan>>

SeqTick == Advance(MicroReadings)

NextSeq == SeqHook \/ SeqTick

SpecSeq == InitSeq /\ [][NextSeq]_vars

\* ------------------------------------------------------------------------
\* SpecAgents: the subagent notifications of two subagents, with the
\* notifications that create the record, set PERMISSION and clear the
\* list, and the start of another session, the handlers run one at a time.
\* ------------------------------------------------------------------------

OtherSession == "s2"

AgentInputs ==
    {StartPayload(SeqSession),
     StartPayload(OtherSession),
     ToolPayload(SeqSession, "PermissionRequest", "Bash"),
     Payload(SeqSession, "Stop"),
     Payload(SeqSession, "SessionEnd"),
     AgentPayload(SeqSession, "SubagentStop", "a2")}
      \cup SubagentInputs(SeqSession)

AgentHook ==
    \E data \in AgentInputs :
        /\ files' = handle_hook(files, data, _now_iso(clock))
        /\ last' = [op |-> "hook", data |-> data, state |-> NoState,
                    now |-> clock, pre |-> files, ret |-> <<>>]
        /\ UNCHANGED <<clock, hooks, posts, temps, scan>>

AgentTick == Advance(MicroReadings)

NextAgents == AgentHook \/ AgentTick

SpecAgents == InitSeq /\ [][NextAgents]_vars

\* ------------------------------------------------------------------------
\* SpecStore: the store called directly, one call at a time: write_session
\* with records of several sessions carrying any stamp, and get_sessions.
\* ------------------------------------------------------------------------

StoreSessions == {"s1", "s2"}

StoreStatuses == {"THINKING", "ENDED"}

\* The records a caller can hold: of any session, with either status,
\* stamped with the reading of the clock now or at an earlier time.
StoreStates ==
    {[NoState EXCEPT !.session_id = sid, !.status = status,
                     !.started_at = IsoFormat(Clock0),
                     !.last_updated = IsoFormat(t)] :
        sid \in StoreSessions, status \in StoreStatuses,
        t \in {r \in DayReadings : ~TimeBefore(clock, r)}}

StoreWrite ==
    \E state \in StoreStates :
        /\ files' = write_session(files, state)
        /\ last' = [op |-> "write_session", data |-> NoData, state |-> state,
                    now |-> clock, pre |-> files, ret |-> <<>>]
        /\ UNCHANGED <<clock, hooks, posts, temps, scan>>

StoreList ==
    \E order \in Listings(files) :
        LET got == get_sessions(files, order, clock)
        IN /\ files' = got.files
           /\ last' = [op |-> "get_sessions", data |-> NoData, state |-> NoState,
                       now |-> clock, pre |-> files, ret |-> got.sessions]
           /\ UNCHANGED <<clock, hooks, posts, temps, scan>>

StoreTick == Advance(DayReadings)

NextStore == StoreWrite \/ StoreList \/ StoreTick

SpecStore == InitSeq /\ [][NextStore]_vars

\* ------------------------------------------------------------------------
\* SpecWrite: write_session calls of several processes on one session, the
\* text of the record written piece by piece, any call failing midway.
\* ------------------------------------------------------------------------

WriteSession == "s1"

\* The records a caller can hold, stamped now or earlier.
WriteStates ==
    {[NoState EXCEPT !.session_id = WriteSession, !.status = status,
                     !.started_at = IsoFormat(Clock0),
                     !.last_updated = IsoFormat(t)] :
        status \in StoreStatuses,
        t \in {r \in MicroReadings : ~TimeBefore(clock, r)}}

WriterAt(i, pc, state) ==
    [hooks EXCEPT ![i] = [pc |-> pc, data |-> NoData, now |-> <<>>,
                          state |-> state]]

Without(writing, name) == [n \in DOMAIN writing \ {name} |-> writing[n]]

\* write_session, lines 68-105: the stamp check, then mkstemp.
WriteOpen(i) ==
    /\ CanStart(i)
    /\ \E state \in WriteStates :
          LET name == DumpPath(_session_path(state.session_id), mkstemp(i))
          IN IF WriteSkipped(files, state)
             THEN /\ hooks' = WriterAt(i, "done", state)
                  /\ temps' = temps
             ELSE /\ hooks' = WriterAt(i, "dump", state)
                  /\ temps' = [n \in DOMAIN temps \cup {name} |->
                                  IF n = name THEN [state |-> state, written |-> 0]
                                  ELSE temps[n]]
    /\ UNCHANGED <<clock, files, last, posts, scan>>

\* Lines 107-108: json.dump writes one more piece of the text.
WriteChunk(i) ==
    /\ hooks[i].pc = "dump"
    /\ LET name == DumpPath(_session_path(hooks[i].state.session_id), mkstemp(i))
       IN /\ name \in DOMAIN temps
          /\ temps[name].written < MaxChunks
          /\ temps' = [temps EXCEPT ![name].written = @ + 1]
    /\ UNCHANGED <<clock, files, hooks, last, posts, scan>>

\* Line 109: os.replace(tmp_path, path) once the text is written out.
WriteRename(i) ==
    /\ hooks[i].pc = "dump"
    /\ LET name == DumpPath(_session_path(hooks[i].state.session_id), mkstemp(i))
       IN /\ name \in DOMAIN temps
          /\ temps[name].written = MaxChunks
          /\ files' = Replace(files, temps[name].state)
          /\ temps' = Without(temps, name)
    /\ hooks' = WriterAt(i, "done", hooks[i].state)
    /\ UNCHANGED <<clock, last, posts, scan>>

\* Lines 110-115: an exception of json.dump or os.replace; the temporary
\* file is unlinked and the exception raised again.
WriteFail(i) ==
    /\ hooks[i].pc = "dump"
    /\ temps' = Without(temps, mkstemp(i))
    /\ hooks' = WriterAt(i, "failed", hooks[i].state)
    /\ UNCHANGED <<clock, files, last, posts, scan>>

WriteTick == Advance(MicroReadings)

NextWrite ==
    \/ \E i \in 1..MaxHooks :
          \/ WriteOpen(i)
          \/ WriteChunk(i)
          \/ WriteRename(i)
          \/ WriteFail(i)
    \/ WriteTick

SpecWrite == InitSeq /\ [][NextWrite]_vars

\* ------------------------------------------------------------------------
\* SpecReap: one get_sessions call at a time, going through the directory
\* file by file, while write_session calls replace the files.
\* ------------------------------------------------------------------------

\* The records a writer holds: of any session, stamped now or earlier.
ReapStates ==
    {[NoState EXCEPT !.session_id = sid, !.status = "THINKING",
                     !.started_at = IsoFormat(Clock0),
                     !.last_updated = IsoFormat(t)] :
        sid \in StoreSessions,
        t \in {r \in DayReadings : ~TimeBefore(clock, r)}}

\* get_sessions, lines 129-133: the clock is read and the directory listed.
ScanBegin ==
    /\ scan.pc = "idle"
    /\ \E order \in Listings(files) :
          scan' = [pc |-> "visit", now |-> clock, todo |-> order,
                   read |-> NoState, sessions |-> <<>>]
    /\ UNCHANGED <<clock, files, hooks, last, posts, temps>>

\* Lines 134-168 and 175: the next file is read; a file that is gone is
\* passed over, a record that is not a zombie is appended.
ScanRead ==
    /\ scan.pc = "visit"
    /\ scan.todo # <<>>
    /\ LET path == Head(scan.todo)
       IN scan' = IF path \notin DOMAIN files
                  THEN [scan EXCEPT !.todo = Tail(scan.todo)]
                  ELSE IF IsZombie(files[path], scan.now)
                  THEN [scan EXCEPT !.pc = "unlink", !.read = files[path]]
                  ELSE [scan EXCEPT !.todo = Tail(scan.todo),
                                    !.sessions = Append(scan.sessions, files[path])]
    /\ UNCHANGED <<clock, files, hooks, last, posts, temps>>

\* Lines 169-173: the file of the zombie is unlinked.
ScanUnlink ==
    /\ scan.pc = "unlink"
    /\ files' = remove_session(files, Head(scan.todo))
    /\ scan' = [scan EXCEPT !.pc = "visit", !.todo = Tail(scan.todo),
                            !.read = NoState]
    /\ UNCHANGED <<clock, hooks, last, posts, temps>>

\* Lines 177-180: the list is sorted and returned.
ScanReturn ==
    /\ scan.pc = "visit"
    /\ scan.todo = <<>>
    /\ last' = [op |-> "get_sessions", data |-> NoData, state |-> NoState,
                now |-> scan.now, pre |-> files,
                ret |-> SortSessions(scan.sessions)]
    /\ scan' = NoScan
    /\ UNCHANGED <<clock, files, hooks, posts, temps>>

\* A write_session call of another process, from its stamp check to its
\* rename.
ReapWrite ==
    /\ \E state \in ReapStates : files' = write_session(files, state)
    /\ UNCHANGED <<clock, hooks, last, posts, temps, scan>>

ReapTick == Advance(DayReadings)

NextReap ==
    \/ ScanBegin
    \/ ScanRead
    \/ ScanUnlink
    \/ ScanReturn
    \/ ReapWrite
    \/ ReapTick

SpecReap == InitSeq /\ [][NextReap]_vars

\* ------------------------------------------------------------------------
\* The properties
\* ------------------------------------------------------------------------

\* The time of a stamp, on one scale: the microsecond parts of the model
\* stay below MaxMicro + 1.
Instant(t) == t.h * (MaxMicro + 1) + t.f

StampInstant(stamp) == Instant(FromIso(stamp))

\* ------------------------------------------------------------------------
\* Properties of the hook processes running at once (Spec)
\* ------------------------------------------------------------------------

Persisted == HookSession \in DOMAIN files

Overwritten == Persisted /\ HookSession \in DOMAIN files'

Finished(i, data) == hooks[i].pc = "done" /\ hooks[i].data = data

\* C1: under every interleaving of the handlers, the last_updated of the
\* persisted record never decreases from one overwrite to the next.
C1_StampNeverDecreases ==
    [][Overwritten =>
         StampInstant(files'[HookSession].last_updated)
           >= StampInstant(files[HookSession].last_updated)]_vars

\* C5: in every persisted record, under every interleaving, no two entries
\* of the subagents list have the same agent_id.
C5_NoDuplicateAgent ==
    \A sid \in DOMAIN files :
        \A i, j \in 1..Len(files[sid].subagents) :
            files[sid].subagents[i].agent_id = files[sid].subagents[j].agent_id
                => i = j

\* Two SubagentStart of a1 have been handled and a1 is listed.
C5_Witness ==
    /\ \E i, j \in 1..MaxHooks :
          /\ i # j
          /\ Finished(i, AgentPayload(HookSession, "SubagentStart", "a1"))
          /\ Finished(j, AgentPayload(HookSession, "SubagentStart", "a1"))
    /\ Persisted
    /\ HasAgent(files[HookSession].subagents, "a1")

\* C7: once a record of the session is persisted, every later persisted
\* record has the same started_at, until the record is removed, under
\* every interleaving of the handlers.
C7_StartedAtKept ==
    [][Overwritten =>
         files'[HookSession].started_at = files[HookSession].started_at]_vars

\* C8: no persisted record has status ENDED: SessionEnd removes the record
\* and no handler writes ENDED.
C8_NoEndedRecord ==
    \A sid \in DOMAIN files : files[sid].status # "ENDED"

\* SessionStart has written a record and SessionEnd has removed it.
C8_Witness ==
    /\ Finished(1, StartPayload(HookSession))
    /\ Finished(2, Payload(HookSession, "SessionEnd"))
    /\ ~Persisted

\* C19: under every interleaving of the handlers of one session (a Stop
\* and a PermissionRequest that both read the record before either
\* writes, say), the persisted status never goes from WAITING straight to
\* PERMISSION.
C19_WaitingNeverToPermission ==
    [][(Overwritten /\ files[HookSession].status = "WAITING")
          => files'[HookSession].status # "PERMISSION"]_vars

\* C20: under every interleaving of the handlers of one session, the
\* tool_count of the persisted record never decreases from one persisted
\* record to the next while the record exists.
C20_ToolCountNeverDecreases ==
    [][Overwritten =>
         files'[HookSession].tool_count >= files[HookSession].tool_count]_vars

\* C21: once a SessionEnd has been processed for the session and no
\* notification of the session starts being processed after it, the
\* record is absent when every handler that was under way has finished: a
\* handler that read the record before the removal does not bring it back.
C21_EndedStaysRemoved ==
    \A i \in 1..MaxHooks :
        (/\ Finished(i, Payload(HookSession, "SessionEnd"))
         /\ \A j \in 1..MaxHooks :
               /\ j < i => hooks[j].pc = "done"
               /\ j > i => hooks[j].pc = "new")
            => ~Persisted

\* Every process has handled a SubagentStart and finished, on a record
\* that was there all along, with no reading of the clock later than
\* another: each handler read the record and none had its write skipped
\* by the stamp check, so each performed its write; no SubagentStop and
\* no Stop was processed.
AllStartsWritten ==
    /\ clock = Clock0
    /\ Persisted
    /\ \A i \in 1..MaxHooks :
          /\ hooks[i].pc = "done"
          /\ hooks[i].data.hook_event_name = "SubagentStart"

\* C23: when several handlers of one session run at once and all finish,
\* no admitted subagent start is lost: every agent_id whose SubagentStart
\* handler performed its write, and for which no SubagentStop or Stop was
\* processed, is in the final persisted subagent list.
C23_NoStartLost ==
    AllStartsWritten =>
        \A i \in 1..MaxHooks :
            HasAgent(files[HookSession].subagents, hooks[i].data.agent_id)

\* ------------------------------------------------------------------------
\* Properties of the handlers run one at a time (SpecSeq, SpecAgents)
\* ------------------------------------------------------------------------

\* The last call was the handler of a notification of the session.
Handled(data) == last.op = "hook" /\ last.data = data

HadRecord == SeqSession \in DOMAIN last.pre

HasRecord == SeqSession \in DOMAIN files

\* C3: with the persisted status WAITING, a handler of any notification
\* that proposes PERMISSION (PermissionRequest, PreToolUse of ExitPlanMode
\* or AskUserQuestion, Notification of a permission prompt), run to
\* completion, leaves the persisted status WAITING.
C3_WaitingNotReopened ==
    \A data \in PermissionInputs(SeqSession) :
        (Handled(data) /\ HadRecord /\ last.pre[SeqSession].status = "WAITING")
            => (HasRecord /\ files[SeqSession].status = "WAITING")

C3_Witness ==
    /\ Handled(ToolPayload(SeqSession, "PreToolUse", "AskUserQuestion"))
    /\ HadRecord
    /\ last.pre[SeqSession].status = "WAITING"
    /\ HasRecord
    /\ files[SeqSession].status = "WAITING"

\* C4: a Notification of a permission prompt is suppressed (nothing is
\* written, the directory is as before) when the persisted status is
\* THINKING, EXECUTING or WAITING, and is admitted (a record is written
\* with status PERMISSION and the handler's stamp) when it is STARTING or
\* PERMISSION or the session has no record; it is admitted in no other
\* case.
C4_NoticeGuard ==
    LET blockers == {"THINKING", "EXECUTING", "WAITING"}
        openers  == {"STARTING", "PERMISSION"}
    IN Handled(NoticePayload(SeqSession, "permission_prompt")) =>
        /\ (HadRecord /\ last.pre[SeqSession].status \in blockers)
              => files = last.pre
        /\ (~HadRecord \/ last.pre[SeqSession].status \in openers)
              => /\ HasRecord
                 /\ files[SeqSession].status = "PERMISSION"
                 /\ files[SeqSession].last_updated = IsoFormat(last.now)
        /\ (HadRecord => last.pre[SeqSession].status \in blockers \cup openers)

C4_Witness ==
    /\ Handled(NoticePayload(SeqSession, "permission_prompt"))
    /\ HadRecord
    /\ last.pre[SeqSession].status = "EXECUTING"
    /\ TimeBefore(FromIso(last.pre[SeqSession].last_updated), last.now)
    /\ files = last.pre

\* C6: a SubagentStart processed on an existing record right after the
\* same SubagentStart (same session, same agent_id) leaves the persisted
\* subagent list as the first one left it: same entries, same order, same
\* fields of every entry.
C6_StartTwiceSameList ==
    [][(/\ last.op = "hook"
        /\ last.data.hook_event_name = "SubagentStart"
        /\ HadRecord
        /\ clock' = clock
        /\ last'.op = "hook"
        /\ last'.data = last.data)
          => (/\ SeqSession \in DOMAIN files'
              /\ files'[SeqSession].subagents = files[SeqSession].subagents)]_vars

\* The second of two SubagentStart of a2 has been processed, with a1
\* started after a2 and before it.
C6_Witness ==
    /\ Handled(AgentPayload(SeqSession, "SubagentStart", "a2"))
    /\ HadRecord
    /\ Len(last.pre[SeqSession].subagents) = 2
    /\ last.pre[SeqSession].subagents[1].agent_id = "a2"
    /\ TimeBefore(FromIso(last.pre[SeqSession].last_updated), last.now)
    /\ HasRecord
    /\ files[SeqSession].subagents = last.pre[SeqSession].subagents

\* The last call handled a SubagentStart or SubagentStop.
HandledSubagent ==
    last.op = "hook" /\ last.data.hook_event_name \in {"SubagentStart", "SubagentStop"}

\* C12: a SubagentStart or SubagentStop for a session with no persisted
\* record does nothing: no record is created, the directory is as before.
C12_SubagentNeedsRecord ==
    (HandledSubagent /\ ~HadRecord) => (files = last.pre /\ ~HasRecord)

\* A SubagentStart has been handled with no record of the session.
C12_Witness ==
    /\ Handled(AgentPayload(SeqSession, "SubagentStart", "a1"))
    /\ ~HadRecord
    /\ files = EmptyDir

\* C13: in every persisted record tool_name is set only if the status is
\* EXECUTING or PERMISSION; every write that moves the record to another
\* status, the override of PERMISSION by THINKING on SubagentStart among
\* them, clears tool_name.
C13_ToolNameOnlyWhileTool ==
    \A sid \in DOMAIN files :
        files[sid].tool_name # None => files[sid].status \in {"EXECUTING", "PERMISSION"}

\* The kinds of notification that handle_hook turns into a record.
WritingKinds ==
    {"SessionStart", "UserPromptSubmit", "PreToolUse", "PermissionRequest",
     "PostToolUse", "Stop", "Notification"}

\* The status of the record a notification creates for a session that had
\* none.
FirstStatus(data) ==
    CASE data.hook_event_name = "SessionStart" -> "STARTING"
      [] data.hook_event_name \in {"UserPromptSubmit", "PostToolUse"} -> "THINKING"
      [] data.hook_event_name = "PreToolUse" ->
            IF data.tool_name \in {"ExitPlanMode", "AskUserQuestion"}
            THEN "PERMISSION" ELSE "EXECUTING"
      [] data.hook_event_name = "PermissionRequest" -> "PERMISSION"
      [] data.hook_event_name = "Stop" -> "WAITING"
      [] OTHER -> IF data.notification_type = "permission_prompt"
                  THEN "PERMISSION" ELSE "STARTING"

\* C14 as stated: a notification of any kind other than SessionStart for a
\* session with no persisted record is dropped: it creates no record.
C14_IncrementalDropped ==
    (/\ last.op = "hook"
     /\ last.data.hook_event_name # "SessionStart"
     /\ ~HadRecord)
        => ~HasRecord

\* C14 as amended: for a session with no persisted record, a notification
\* of a kind that carries a status or a Notification creates the record
\* from the defaults, stamped with the handler's time in started_at and
\* last_updated, with tool_count 1 for PostToolUse and 0 otherwise;
\* SubagentStart, SubagentStop, SessionEnd, the other kinds and a
\* notification without session_id create none.
C14_FirstNotificationCreates ==
    (last.op = "hook" /\ ~HadRecord) =>
        IF last.data.session_id # "" /\ last.data.hook_event_name \in WritingKinds
        THEN /\ HasRecord
             /\ files[SeqSession].status = FirstStatus(last.data)
             /\ files[SeqSession].started_at = IsoFormat(last.now)
             /\ files[SeqSession].last_updated = IsoFormat(last.now)
             /\ files[SeqSession].tool_count
                  = (IF last.data.hook_event_name = "PostToolUse" THEN 1 ELSE 0)
             /\ files[SeqSession].subagents = <<>>
        ELSE ~HasRecord

\* A PostToolUse has created the record of a session that had none.
C14_Witness ==
    /\ Handled(ToolPayload(SeqSession, "PostToolUse", "Bash"))
    /\ ~HadRecord
    /\ HasRecord
    /\ files[SeqSession].status = "THINKING"
    /\ files[SeqSession].tool_count = 1

\* C15 as stated: a notification to which no status mapping applies and
\* from which no field derives (a kind outside the mapping, or a
\* Notification that is not a permission prompt and carries the payload
\* of the notifications before it), handled on an existing record, writes
\* nothing: the directory, with the last_updated and tool_name of the
\* record, is as before.
C15_NoStatusNoWrite ==
    (/\ HadRecord
     /\ \/ Handled(Payload(SeqSession, "PreCompact"))
        \/ Handled(NoticePayload(SeqSession, "idle_prompt")))
        => files = last.pre

\* C15 as amended: a notification of a kind outside the mapping writes
\* nothing; a Notification that is not a permission prompt, handled on an
\* existing record, rewrites it with the status, model, topic, last_prompt,
\* tool_count, started_at and subagents it had, last_updated set to the
\* handler's time and tool_name cleared.
C15_IdleNoticeRestamps ==
    /\ Handled(Payload(SeqSession, "PreCompact")) => files = last.pre
    /\ (Handled(NoticePayload(SeqSession, "idle_prompt")) /\ HadRecord) =>
          /\ HasRecord
          /\ LET old == last.pre[SeqSession]
                 new == files[SeqSession]
             IN /\ new.last_updated = IsoFormat(last.now)
                /\ new.tool_name = None
                /\ new.status = old.status
                /\ new.model = old.model
                /\ old.topic # <<>> => new.topic = old.topic
                /\ new.last_prompt = old.last_prompt
                /\ new.tool_count = old.tool_count
                /\ new.started_at = old.started_at
                /\ new.subagents = old.subagents

\* An idle Notification has been handled on an EXECUTING record of an
\* earlier time that named its tool.
C15_Witness ==
    /\ Handled(NoticePayload(SeqSession, "idle_prompt"))
    /\ HadRecord
    /\ last.pre[SeqSession].status = "EXECUTING"
    /\ last.pre[SeqSession].tool_name = "Bash"
    /\ TimeBefore(FromIso(last.pre[SeqSession].last_updated), last.now)
    /\ files[SeqSession].status = "EXECUTING"
    /\ files[SeqSession].tool_name = None

\* The notifications that propose STARTING, THINKING, EXECUTING or WAITING,
\* with the status each proposes.
PlainInputs ==
    {<<StartPayload(SeqSession), "STARTING">>,
     <<PromptPayload(SeqSession), "THINKING">>,
     <<ToolPayload(SeqSession, "PostToolUse", "Bash"), "THINKING">>,
     <<Payload(SeqSession, "Stop"), "WAITING">>,
     <<ToolPayload(SeqSession, "PreToolUse", "Bash"), "EXECUTING">>}

\* C17: the status guard holds back only proposals of PERMISSION: whatever
\* the persisted status, the handler of a notification that maps to
\* STARTING, THINKING, EXECUTING or WAITING (SessionStart,
\* UserPromptSubmit, PostToolUse, Stop, PreToolUse of a tool that does not
\* ask the user), run to completion on a record with no later stamp,
\* persists the mapped status.
C17_OtherStatusesAdmitted ==
    \A input \in PlainInputs :
        (/\ Handled(input[1])
         /\ HadRecord
         /\ StampInstant(last.pre[SeqSession].last_updated) <= Instant(last.now))
            => (/\ HasRecord
                /\ files[SeqSession].status = input[2]
                /\ files[SeqSession].last_updated = IsoFormat(last.now))

\* A PreToolUse of Bash has been handled on a WAITING record.
C17_Witness ==
    /\ Handled(ToolPayload(SeqSession, "PreToolUse", "Bash"))
    /\ HadRecord
    /\ last.pre[SeqSession].status = "WAITING"
    /\ HasRecord
    /\ files[SeqSession].status = "EXECUTING"

\* C18: a SubagentStart handled on a persisted record whose status is
\* PERMISSION writes the record with status THINKING; a SubagentStop, and
\* a SubagentStart on a record of any other status, write it with the
\* status that was read.
C18_StartOverridesPermission ==
    (HandledSubagent /\ HadRecord) =>
        /\ HasRecord
        /\ files[SeqSession].last_updated = IsoFormat(last.now)
        /\ files[SeqSession].status =
              (IF /\ last.data.hook_event_name = "SubagentStart"
                  /\ last.pre[SeqSession].status = "PERMISSION"
               THEN "THINKING" ELSE last.pre[SeqSession].status)

\* A SubagentStart has been handled on a PERMISSION record of an earlier
\* time.
C18_Witness ==
    /\ Handled(AgentPayload(SeqSession, "SubagentStart", "a1"))
    /\ HadRecord
    /\ last.pre[SeqSession].status = "PERMISSION"
    /\ TimeBefore(FromIso(last.pre[SeqSession].last_updated), last.now)
    /\ HasRecord
    /\ files[SeqSession].status = "THINKING"

\* C24: in every persisted record whose status is WAITING the subagents
\* list is empty: Stop clears the list, and no later notification (a late
\* SubagentStart in particular) adds a subagent to a WAITING record.
C24_WaitingHasNoSubagents ==
    \A sid \in DOMAIN files :
        files[sid].status = "WAITING" => files[sid].subagents = <<>>

\* C25: a SubagentStart or SubagentStop handled on an existing record
\* changes only subagents, last_updated and (for the override of
\* PERMISSION by THINKING) status: cwd, project, tool_name,
\* permission_mode, model, topic, last_prompt, tool_count and started_at
\* of the persisted record are as before, and so are the records of the
\* other sessions.
C25_SubagentFrame ==
    (HandledSubagent /\ HadRecord) =>
        /\ DOMAIN files = DOMAIN last.pre
        /\ \A sid \in DOMAIN files \ {SeqSession} : files[sid] = last.pre[sid]
        /\ LET old == last.pre[SeqSession]
               new == files[SeqSession]
           IN /\ new.session_id = old.session_id
              /\ new.cwd = old.cwd
              /\ new.project = old.project
              /\ new.tool_name = old.tool_name
              /\ new.permission_mode = old.permission_mode
              /\ new.model = old.model
              /\ new.topic = old.topic
              /\ new.last_prompt = old.last_prompt
              /\ new.tool_count = old.tool_count
              /\ new.started_at = old.started_at
              /\ new.status # old.status =>
                    (old.status = "PERMISSION" /\ new.status = "THINKING")

\* A SubagentStart has been handled at a later time on a PERMISSION record
\* that names its tool, beside the record of another session.
C25_Witness ==
    /\ Handled(AgentPayload(SeqSession, "SubagentStart", "a2"))
    /\ HadRecord
    /\ last.pre[SeqSession].status = "PERMISSION"
    /\ last.pre[SeqSession].tool_name = "Bash"
    /\ TimeBefore(FromIso(last.pre[SeqSession].started_at), last.now)
    /\ OtherSession \in DOMAIN files
    /\ files[SeqSession].tool_name = "Bash"
    /\ files[SeqSession].subagents # last.pre[SeqSession].subagents

\* C9 as stated: from no record, after notifications processed one at a
\* time of which k are PostToolUse, the persisted tool_count is k.
C9_CountIsAllPosts ==
    HasRecord => files[SeqSession].tool_count = posts.total

\* C9 as amended: the persisted tool_count is the number of PostToolUse
\* notifications processed since the last SessionEnd (all k of them when
\* the sequence holds no SessionEnd).
C9_CountIsPostsSinceEnd ==
    HasRecord => files[SeqSession].tool_count = posts.since

C9_Witness ==
    /\ HasRecord
    /\ posts.total = MaxPosts
    /\ posts.since = 1
    /\ files[SeqSession].tool_count = 1
    /\ files[SeqSession].status = "WAITING"

\* ------------------------------------------------------------------------
\* Properties of the store called directly (SpecStore)
\* ------------------------------------------------------------------------

\* C2: a write_session made after another write to the same session has
\* completed, and carrying an earlier timestamp than that one, is skipped:
\* the persisted records are those the first write left.
C2_StaleWriteSkipped ==
    LET sid == last.state.session_id
    IN (/\ last.op = "write_session"
        /\ sid \in DOMAIN last.pre
        /\ StampInstant(last.state.last_updated)
             < StampInstant(last.pre[sid].last_updated))
          => files = last.pre

\* A write stamped on the second (no fraction in its stamp) after a write
\* stamped a microsecond later, with another status.
C2_Witness ==
    LET sid == last.state.session_id
    IN /\ last.op = "write_session"
       /\ sid \in DOMAIN last.pre
       /\ last.state.last_updated = IsoFormat([h |-> 24, f |-> 0])
       /\ last.pre[sid].last_updated = IsoFormat([h |-> 24, f |-> 1])
       /\ last.state.status # last.pre[sid].status
       /\ files = last.pre

\* C10: after get_sessions, called with no writer running, every record
\* whose last_updated was more than 24 hours before the call's clock
\* reading is neither in the returned list nor in the directory, and every
\* other record is unchanged in the directory and in the returned list.
C10_ZombiesReaped ==
    last.op = "get_sessions" =>
        \A sid \in DOMAIN last.pre :
            LET rec == last.pre[sid]
                listed == \E i \in 1..Len(last.ret) : last.ret[i] = rec
            IN IF Instant(last.now) - StampInstant(rec.last_updated)
                    > ZOMBIE_THRESHOLD_HOURS * (MaxMicro + 1)
               THEN sid \notin DOMAIN files /\ ~listed
               ELSE sid \in DOMAIN files /\ files[sid] = rec /\ listed

\* One call that reaps a record a microsecond over 24 hours old and keeps
\* one of exactly 24 hours.
C10_Witness ==
    /\ last.op = "get_sessions"
    /\ \E old, kept \in DOMAIN last.pre :
          /\ Instant(last.now) - StampInstant(last.pre[old].last_updated)
               = ZOMBIE_THRESHOLD_HOURS * (MaxMicro + 1) + 1
          /\ Instant(last.now) - StampInstant(last.pre[kept].last_updated)
               = ZOMBIE_THRESHOLD_HOURS * (MaxMicro + 1)
          /\ old \notin DOMAIN files
          /\ kept \in DOMAIN files
          /\ Len(last.ret) = Cardinality(DOMAIN files)

\* C16: the list get_sessions returns has every record whose status is
\* not ENDED before every record whose status is ENDED, and within each
\* of the two groups the records in non-increasing order of last_updated.
C16_ListOrder ==
    last.op = "get_sessions" =>
        \A i, j \in 1..Len(last.ret) :
            i < j =>
                /\ last.ret[i].status = "ENDED" => last.ret[j].status = "ENDED"
                /\ ((last.ret[i].status = "ENDED") = (last.ret[j].status = "ENDED"))
                      => StampInstant(last.ret[i].last_updated)
                           >= StampInstant(last.ret[j].last_updated)

\* A list of two records of the same group, the one stamped on the second
\* after the one stamped a microsecond later.
C16_Witness ==
    /\ last.op = "get_sessions"
    /\ Len(last.ret) = 2
    /\ last.ret[1].status = last.ret[2].status
    /\ last.ret[1].last_updated = IsoFormat([h |-> 0, f |-> 1])
    /\ last.ret[2].last_updated = IsoFormat([h |-> 0, f |-> 0])

\* ------------------------------------------------------------------------
\* Properties of write_session step by step (SpecWrite)
\* ------------------------------------------------------------------------

\* A record some write_session call was given.
Given(rec) == \E i \in 1..MaxHooks : hooks[i].pc # "new" /\ hooks[i].state = rec

\* What a reader of the session's file finds is no file, or the whole
\* text of a record that was persisted before or is the new one.
ReaderSeesWhole ==
    LET text == read_text(files, temps, WriteSession)
    IN text # <<>> => (text[1].written = MaxChunks /\ Given(text[1].state))

\* The step of a write_session call that fails.
Fails(i) == hooks[i].pc = "dump" /\ hooks'[i].pc = "failed"

\* C11: at every moment, also while a write_session is under way or has
\* failed midway, a reader of a session's file sees no record, the whole
\* record persisted before, or the whole new record, never a part of one;
\* a failed write leaves the record that was there.
C11_AtomicWrite ==
    /\ []ReaderSeesWhole
    /\ [][\A i \in 1..MaxHooks :
             Fails(i) => read_text(files', temps', WriteSession)
                           = read_text(files, temps, WriteSession)]_vars

\* A write has replaced the file, a later one with another record has
\* failed, and the file holds the record of the first.
C11_Witness ==
    \E i, j \in 1..MaxHooks :
        /\ hooks[i].pc = "done"
        /\ hooks[j].pc = "failed"
        /\ hooks[j].state # hooks[i].state
        /\ ~WriteSkipped(files, hooks[j].state)
        /\ read_text(files, temps, WriteSession)
             = <<[state |-> hooks[i].state, written |-> MaxChunks]>>

\* ------------------------------------------------------------------------
\* Properties of get_sessions running beside writers (SpecReap)
\* ------------------------------------------------------------------------

\* C22: get_sessions running beside writers never deletes a fresh record:
\* at the step where it unlinks a session's file, the record then in the
\* file has a last_updated more than 24 hours before the call's clock
\* reading (a record a writer put there after get_sessions read the file
\* is not deleted).
C22_OnlyOldRecordsUnlinked ==
    [][(scan.pc = "unlink" /\ scan'.pc # "unlink"
          /\ Head(scan.todo) \in DOMAIN files)
         => Instant(scan.now) - StampInstant(files[Head(scan.todo)].last_updated)
              > ZOMBIE_THRESHOLD_HOURS * (MaxMicro + 1)]_vars

====
